---- MODULE Spec2Model ----
(***************************************************************************)
(* KrakenStreamer: the data-refresh and fan-out pipeline of the gateway.   *)
(*   server/storage.ts  MemStorage (Snapshot Store), KrakenApiService      *)
(*                      (Upstream Client, rate-limit gate)                 *)
(*   server/routes.ts   request handlers, WebSocket server, 15 s timer     *)
(* Node runs one event loop: a handler runs without interruption from one  *)
(* real suspension point (upstream I/O, the rate-limit setTimeout, a timer *)
(* or socket event) to the next; an await of an already settled promise    *)
(* (every MemStorage method) only yields to the microtask queue.  One      *)
(* action of the model is one such uninterrupted run.                      *)
(***************************************************************************)
EXTENDS Integers, Sequences, FiniteSets, TLC

(* ---------------- program constants ---------------- *)

\* routes.ts:8
POPULAR_PAIRS ==
    <<"XBTUSD", "ETHUSD", "ADAUSD", "DOTUSD", "SOLUSD", "MATICUSD", "LINKUSD", "UNIUSD">>

\* storage.ts:96 (no API key configured) and storage.ts:396
rateLimitMs == 1000

\* routes.ts:284, the period of the broadcast setInterval
BROADCAST_INTERVAL_MS == 15000

\* routes.ts:255, the period of the per-connection heartbeat setInterval
PING_INTERVAL_MS == 30000

(* ---------------- bounds of the model ---------------- *)

\* number of pairs of POPULAR_PAIRS the model keeps (a prefix of the list)
NumPairs == 2
\* upstream calls created in one behaviour
MaxCalls == 6
\* request handlers and timer cycles started in one behaviour
MaxTasks == 2
\* WebSocket connections accepted in one behaviour
MaxConns == 2
\* messages received on one connection
MaxMsgs == 2
\* handlers started, connections accepted and messages received in one behaviour
MaxEvents == 3
\* granularity of the observed clock
TickMs == 500
\* the clock is observed at fine grain for this long after each period boundary
MaxFine == 1000
\* broadcast periods the clock may run through
MaxPeriods == 2
\* keys in the result of one upstream Ticker request
MaxKeys == 3
\* pairs in one direct request of getMultipleTickers
MaxBatch == 3
\* price levels on one side of an upstream Depth result
MaxDepth == 2
\* MemStorage operations called directly in one behaviour
MaxOps == 3
\* distinct records put into the store directly
MaxRecords == 2
\* WebSocket objects the hook of the client creates in one behaviour
MaxSockets == 3
\* messages the client receives in one behaviour
MaxPushes == 2
\* distinct contents of the records the client receives
MaxVersions == 2

\* Date.now() at start-up: far more than rateLimitMs after the epoch, so the
\* first request (lastRequestTime = 0) is never delayed
StartTime == rateLimitMs

Universe == SubSeq(POPULAR_PAIRS, 1, NumPairs)
Pairs == {Universe[i] : i \in 1..NumPairs}
Conns == 1..MaxConns

\* outcomes of one upstream HTTP exchange: a non-2xx status, a non-empty error
\* list, or a result; "noData" is a result (of a Ticker request for several
\* pairs) in which some requested pair resolves to no key
Outcomes == {"ok", "httpError", "apiError", "noData"}

VARIABLES
    now,              \* Date.now()
    lastRequestTime,  \* KrakenApiService.lastRequestTime
    prevRequestTime,  \* history: issue time of the request before the last one, -1 if none
    tickerData,       \* MemStorage.tickerData   : pair -> record (0 = no entry)
    orderBooks,       \* MemStorage.orderBooks   : pair -> record (0 = no entry)
    recentTrades,     \* MemStorage.recentTrades : pair -> record (0 = no entry)
    marketData,       \* MemStorage.marketData   : sequence of [pair, data]
    lastUpdated,      \* MemStorage.lastUpdated  (0 = undefined)
    marketDataAt,     \* history: time of the last setMarketData (0 = never)
    calls,            \* upstream calls (one rateLimitedFetch each), by creation order
    tasks,            \* request handlers and timer cycles, by creation order
    readyState,       \* per connection: "none", "open", "closing", "closed"
    pingNext,         \* per connection: next firing of pingInterval (0 = no timer)
    sent,             \* per connection: log of what was sent on it
    handled,          \* per connection: log of the messages its handler processed
    nextBroadcast,    \* next firing of the broadcast setInterval
    returned,         \* history: the last KrakenApiService call observed with its
                      \* upstream result, and what it returned
    storeLog,         \* history: the MemStorage operations called directly, in order
    queryData,        \* client: the QueryClient cache, by query key
    isUnmounted,      \* client: isUnmounted of the effect of useWebSocketData
    wsRef,            \* client: wsRef.current, an index into sockets (0 = null)
    reconnectTimeout, \* client: the reconnect setTimeout is pending
    sockets,          \* client: readyState of each WebSocket the hook created
    received          \* history: the messages the client's onmessage processed

gateVars == <<lastRequestTime, prevRequestTime>>
storeVars == <<tickerData, orderBooks, recentTrades, marketData, lastUpdated>>
connVars == <<readyState, pingNext, sent, handled>>
vars == <<now, lastRequestTime, prevRequestTime, tickerData, orderBooks, recentTrades,
          marketData, lastUpdated, marketDataAt, calls, tasks, readyState, pingNext,
          sent, handled, nextBroadcast, returned, storeLog, queryData, isUnmounted,
          wsRef, reconnectTimeout, sockets, received>>
directVars == <<returned, storeLog>>
hookVars == <<isUnmounted, wsRef, reconnectTimeout, sockets>>
clientVars == <<queryData, hookVars, received>>
serverVars == <<now, gateVars, storeVars, marketDataAt, calls, tasks, connVars, nextBroadcast>>

(* A record produced by the upstream call number c is identified by c: the  *)
(* normalised content is a function of the response of that call.           *)

\* no call observed yet
NoCall == [op |-> "none"]

NoTask == [kind |-> "none", pair |-> "", pc |-> "done", idx |-> 0, a |-> 0, b |-> 0,
           resp |-> 0, fetched |-> {}, stored |-> {}, failed |-> {},
           type |-> "", body |-> [sent |-> FALSE]]

(* ---------------- Upstream Client ---------------- *)

\* a gate that never waits
rateLimitedFetchNoDelay(lrt, t) == [st |-> "fetching", wake |-> 0, lrt |-> t]

\* what the synchronous part of rateLimitedFetch does when entered at time t
\* with lastRequestTime = lrt: either it goes to sleep until wake, or it sets
\* lastRequestTime and issues the request
rateLimitedFetch(lrt, t) ==
    LET timeSinceLastRequest == t - lrt IN
    IF timeSinceLastRequest < rateLimitMs
    THEN [st |-> "sleeping", wake |-> t + (rateLimitMs - timeSinceLastRequest), lrt |-> lrt]
    ELSE [st |-> "fetching", wake |-> 0, lrt |-> t]

\* the gate and the list of calls, threaded through the calls one handler
\* step starts
Gate == [calls |-> calls, lrt |-> lastRequestTime, prev |-> prevRequestTime]

\* one API method call (getTickerData, getOrderBook, getRecentTrades,
\* getMultipleTickers) up to its first suspension
StartCall(g, api, pair, owner) ==
    LET r == rateLimitedFetch(g.lrt, now) IN
    [calls |-> Append(g.calls, [api |-> api, pair |-> pair, owner |-> owner,
                                st |-> r.st, wake |-> r.wake]),
     lrt |-> r.lrt,
     prev |-> IF r.st = "fetching" THEN (IF g.lrt = 0 THEN -1 ELSE g.lrt) ELSE g.prev]

SetGate(g) ==
    /\ calls' = g.calls
    /\ lastRequestTime' = g.lrt
    /\ prevRequestTime' = g.prev

\* makeRequest without the check of the error list
makeRequestIgnoresErrorList(outcome) == outcome = "httpError"

\* makeRequest throws on a non-2xx status and on a non-empty error list
makeRequestThrows(outcome) == outcome = "httpError" \/ outcome = "apiError"

\* getMultipleTickers rejects when makeRequest throws and when it throws
\* itself, `No data found for pair` (storage.ts 254, 288-291)
getMultipleTickersThrows(outcome) == makeRequestThrows(outcome) \/ outcome = "noData"

\* getMultipleTickers: one record per requested pair, in request order,
\* labelled with the requested pair
getMultipleTickers(pairs, c) == [i \in 1..Len(pairs) |-> [pair |-> pairs[i], data |-> c]]

(* ---------------- Upstream Client: normalisation ---------------- *)

(* Identifiers are spelled out letter by letter where the code looks into   *)
(* them (replace, includes).                                                 *)
Spell(s) ==
    CASE s = "XBTUSD" -> <<"X", "B", "T", "U", "S", "D">>
      [] s = "ETHUSD" -> <<"E", "T", "H", "U", "S", "D">>
      [] s = "ADAUSD" -> <<"A", "D", "A", "U", "S", "D">>
      [] s = "DOTUSD" -> <<"D", "O", "T", "U", "S", "D">>
      [] s = "SOLUSD" -> <<"S", "O", "L", "U", "S", "D">>
      [] s = "MATICUSD" -> <<"M", "A", "T", "I", "C", "U", "S", "D">>
      [] s = "LINKUSD" -> <<"L", "I", "N", "K", "U", "S", "D">>
      [] s = "UNIUSD" -> <<"U", "N", "I", "U", "S", "D">>
      [] s = "XXBTZUSD" -> <<"X", "X", "B", "T", "Z", "U", "S", "D">>
      [] s = "XETHZUSD" -> <<"X", "E", "T", "H", "Z", "U", "S", "D">>
      [] s = "XBTUSDT" -> <<"X", "B", "T", "U", "S", "D", "T">>

\* keys the upstream may use in the result of a Ticker request
UpstreamKeys == {"XXBTZUSD", "XBTUSD", "XBTUSDT", "XETHZUSD", "ETHUSD", "ADAUSD"}

\* the decimal strings the upstream sends as prices, and parseFloat of them
\* in tenths
PriceStrings == {"50.0", "50.5", "51.0", "100.0", "100.5", "101.0"}
parseFloat(s) ==
    CASE s = "50.0" -> 500
      [] s = "50.5" -> 505
      [] s = "51.0" -> 510
      [] s = "100.0" -> 1000
      [] s = "100.5" -> 1005
      [] s = "101.0" -> 1010

\* (x / y) * 100 in hundredths of a percent, rounded down
Percent(x, y) == (x * 10000) \div y

\* the best ask (data.a[0]) and the best bid (data.b[0]) the upstream quotes
\* under each key at the time of the request
QuoteOf(key) ==
    CASE key = "XXBTZUSD" -> [a |-> "101.0", b |-> "100.0"]
      [] key = "XBTUSD" -> [a |-> "101.0", b |-> "100.5"]
      [] key = "XBTUSDT" -> [a |-> "100.5", b |-> "100.0"]
      [] key = "XETHZUSD" -> [a |-> "50.5", b |-> "50.0"]
      [] key = "ETHUSD" -> [a |-> "51.0", b |-> "50.5"]
      [] key = "ADAUSD" -> [a |-> "51.0", b |-> "50.0"]

\* the `result` of a Ticker request: entries in the order of Object.keys,
\* no key twice
Distinct(ks) == \A i, j \in 1..Len(ks) : ks[i] = ks[j] => i = j
TickerResults ==
    LET keyLists == {ks \in UNION {[1..n -> UpstreamKeys] : n \in 0..MaxKeys} : Distinct(ks)}
    IN {[i \in 1..Len(ks) |-> [key |-> ks[i], a |-> QuoteOf(ks[i]).a, b |-> QuoteOf(ks[i]).b]] :
            ks \in keyLists}

\* result[key] is truthy: the key is there (its value is an object)
Has(result, key) == \E i \in 1..Len(result) : result[i].key = key
\* result[key]
Lookup(result, key) == result[CHOOSE i \in 1..Len(result) : result[i].key = key]

Min(S) == CHOOSE x \in S : \A y \in S : x <= y

\* krakenPairMap[pair] || [pair] (storage.ts 258-270)
possibleKeys(pair) ==
    CASE pair = "XBTUSD" -> <<"XXBTZUSD", "XBTUSD">>
      [] pair = "ETHUSD" -> <<"XETHZUSD", "ETHUSD">>
      [] OTHER -> <<pair>>

\* str.replace(/[...]/g, '')
Strip(str, chars) == SelectSeq(str, LAMBDA ch : ch \notin chars)

\* str.includes(part)
Includes(str, part) ==
    \E i \in 0..(Len(str) - Len(part)) : SubSeq(str, i + 1, i + Len(part)) = part

\* the loop over possibleKeys (storage.ts 272-277): the first one that is a
\* key of the result, '' if none is
FirstAlias(pair, result) ==
    LET al == possibleKeys(pair)
        hits == {j \in 1..Len(al) : Has(result, al[j])}
    IN IF hits = {} THEN "" ELSE al[Min(hits)]

\* the predicate of the fallback (storage.ts 282-284)
FuzzyMatch(key, pair) ==
    LET normalizedKey == Strip(Spell(key), {"X", "Z"})
        normalizedPair == Strip(Spell(pair), {"X", "Z", "/"})
    IN Includes(normalizedKey, normalizedPair) \/ Includes(Spell(key), Spell(pair))

\* Object.keys(result).find(...) || '' (storage.ts 281-285)
Fallback(pair, result) ==
    LET hits == {i \in 1..Len(result) : FuzzyMatch(result[i].key, pair)}
    IN IF hits = {} THEN "" ELSE result[Min(hits)].key

\* the resolution with the fallback consulted first
pairKeyFallbackFirst(pair, result) ==
    LET f == Fallback(pair, result) IN
    IF f # "" THEN f ELSE FirstAlias(pair, result)

\* pairKey as the callback of pairs.map computes it (storage.ts 269-286)
pairKey(pair, result) ==
    LET k == FirstAlias(pair, result) IN
    IF k # "" THEN k ELSE Fallback(pair, result)

\* the record labelled with the key of the upstream
MarketDataKeyed(pair, key, data) ==
    [pair |-> key, bid |-> parseFloat(data.b), ask |-> parseFloat(data.a)]

\* the record with the bid taken from data.a and the ask from data.b
MarketDataAskForBid(pair, key, data) ==
    [pair |-> pair, bid |-> parseFloat(data.a), ask |-> parseFloat(data.b)]

\* the record getMultipleTickers builds (storage.ts 295-306); name, lastPrice,
\* change24h, changePercent24h, volume24h, high24h and low24h are taken from
\* data in the same way and are left out
MarketData(pair, key, data) ==
    [pair |-> pair, bid |-> parseFloat(data.b), ask |-> parseFloat(data.a)]

\* the record getTickerData builds (storage.ts 187-200), the same fields left out
TickerData(pair, data) ==
    [pair |-> pair, bid |-> parseFloat(data.b), ask |-> parseFloat(data.a),
     spread |-> parseFloat(data.a) - parseFloat(data.b),
     spreadPercent |-> Percent(parseFloat(data.a) - parseFloat(data.b), parseFloat(data.b))]

\* the pairs of the request that resolve to no key of the result
Unresolved(pairs, result) == {i \in 1..Len(pairs) : pairKey(pairs[i], result) = ""}

\* a mapping that leaves the unresolved pairs out and returns the others
mapTickersPartial(pairs, result) ==
    LET found == SelectSeq(pairs, LAMBDA p : pairKey(p, result) # "") IN
    [ok |-> TRUE,
     records |-> [i \in 1..Len(found) |->
                     MarketData(found[i], pairKey(found[i], result),
                                Lookup(result, pairKey(found[i], result)))]]

\* pairs.map(...) of getMultipleTickers (storage.ts 256-307) on a result: the
\* callback throws at the first pair that resolves to no key, and then
\* nothing is returned
mapTickers(pairs, result) ==
    IF Unresolved(pairs, result) # {}
    THEN [ok |-> FALSE, error |-> "No data found for pair",
          pair |-> pairs[Min(Unresolved(pairs, result))]]
    ELSE [ok |-> TRUE,
          records |-> [i \in 1..Len(pairs) |->
                          MarketData(pairs[i], pairKey(pairs[i], result),
                                     Lookup(result, pairKey(pairs[i], result)))]]

\* getTickerData on a result (storage.ts 184-200): the first key of the
\* result is taken whatever it is; on an empty result data is undefined and
\* reading data.c throws a TypeError
getTickerData(pair, result) ==
    IF result = <<>>
    THEN [ok |-> FALSE, error |-> "TypeError", pair |-> pair]
    ELSE [ok |-> TRUE, record |-> TickerData(pair, result[1])]

\* the two sides of a Depth result: prices as the upstream sends them, asks
\* ascending and bids descending, at most MaxDepth levels a side
Ascending(ps) == \A i, j \in 1..Len(ps) : i < j => parseFloat(ps[i]) < parseFloat(ps[j])
Descending(ps) == \A i, j \in 1..Len(ps) : i < j => parseFloat(ps[i]) > parseFloat(ps[j])
Sides == UNION {[1..n -> PriceStrings] : n \in 0..MaxDepth}
Depths == [asks : {ps \in Sides : Ascending(ps)}, bids : {ps \in Sides : Descending(ps)}]

\* getOrderBook on a result (storage.ts 208-231); volume and timestamp of the
\* levels are left out
getOrderBook(pair, data) ==
    LET asks == [i \in 1..Len(data.asks) |-> [price |-> parseFloat(data.asks[i])]]
        bids == [i \in 1..Len(data.bids) |-> [price |-> parseFloat(data.bids[i])]]
        bestAsk == IF Len(asks) > 0 THEN asks[1].price ELSE 0
        bestBid == IF Len(bids) > 0 THEN bids[1].price ELSE 0
        spread == bestAsk - bestBid
        spreadPercent == IF bestBid > 0 THEN Percent(spread, bestBid) ELSE 0
    IN [pair |-> pair, asks |-> asks, bids |-> bids, spread |-> spread,
        spreadPercent |-> spreadPercent]

(* ---------------- bookkeeping of handlers ---------------- *)

Task(kind, pair, pc, a) ==
    [NoTask EXCEPT !.kind = kind, !.pair = pair, !.pc = pc, !.a = a]

\* upstream calls a running force-refresh will still create
Need(t) ==
    IF tasks[t].kind = "refresh" /\ tasks[t].pc # "done"
    THEN 2 * (NumPairs - tasks[t].idx)
    ELSE 0

RECURSIVE SumNeed(_)
SumNeed(n) == IF n = 0 THEN 0 ELSE Need(n) + SumNeed(n - 1)

RECURSIVE SumHandled(_)
SumHandled(n) == IF n = 0 THEN 0 ELSE Len(handled[n]) + SumHandled(n - 1)

\* what has come in so far: requests and timer cycles, connections, messages
Events ==
    Len(tasks) + Cardinality({c \in Conns : readyState[c] # "none"}) + SumHandled(MaxConns)

\* room for a new handler that creates up to n upstream calls
Room(n) ==
    /\ Len(tasks) < MaxTasks
    /\ Events < MaxEvents
    /\ Len(calls) + SumNeed(Len(tasks)) + n <= MaxCalls

(* ---------------- the clock ---------------- *)

\* Time passes between two runs of the event loop: a fine step ...
TickFine ==
    /\ ((now - StartTime) % BROADCAST_INTERVAL_MS) + TickMs <= MaxFine
    /\ now' = now + TickMs
    /\ UNCHANGED <<clientVars, directVars, gateVars, storeVars, marketDataAt, calls, tasks, connVars, nextBroadcast>>

\* ... or a whole broadcast period (an idle stretch) ...
TickPeriod ==
    /\ now + BROADCAST_INTERVAL_MS <= StartTime + MaxPeriods * BROADCAST_INTERVAL_MS + MaxFine
    /\ now' = now + BROADCAST_INTERVAL_MS
    /\ UNCHANGED <<clientVars, directVars, gateVars, storeVars, marketDataAt, calls, tasks, connVars, nextBroadcast>>

\* ... or the time until the heartbeat timer of a connection that has left
\* the open state fires
TickPing(c) ==
    /\ readyState[c] \in {"closing", "closed"}
    /\ pingNext[c] # 0
    /\ pingNext[c] > now
    /\ now' = pingNext[c]
    /\ UNCHANGED <<clientVars, directVars, gateVars, storeVars, marketDataAt, calls, tasks, connVars, nextBroadcast>>

\* ... or the time until the rate-limit delay of call c is over
TickWake(c) ==
    /\ calls[c].st = "sleeping"
    /\ calls[c].wake > now
    /\ now' = calls[c].wake
    /\ UNCHANGED <<clientVars, directVars, gateVars, storeVars, marketDataAt, calls, tasks, connVars, nextBroadcast>>

(* ---------------- on-demand handlers: start ---------------- *)

\* GET /api/ticker/:pair up to the await of krakenApi.getTickerData
GetTicker(pair) ==
    /\ Room(1)
    /\ LET g == StartCall(Gate, "Ticker", pair, Len(tasks) + 1) IN
       /\ SetGate(g)
       /\ tasks' = Append(tasks, Task("ticker", pair, "await", Len(g.calls)))
    /\ UNCHANGED <<clientVars, directVars, now, storeVars, marketDataAt, connVars, nextBroadcast>>

\* GET /api/orderbook/:pair up to the await of krakenApi.getOrderBook
GetOrderBook(pair) ==
    /\ Room(1)
    /\ LET g == StartCall(Gate, "Depth", pair, Len(tasks) + 1) IN
       /\ SetGate(g)
       /\ tasks' = Append(tasks, Task("orderbook", pair, "await", Len(g.calls)))
    /\ UNCHANGED <<clientVars, directVars, now, storeVars, marketDataAt, connVars, nextBroadcast>>

\* GET /api/trades/:pair up to the await of krakenApi.getRecentTrades
GetTrades(pair) ==
    /\ Room(1)
    /\ LET g == StartCall(Gate, "Trades", pair, Len(tasks) + 1) IN
       /\ SetGate(g)
       /\ tasks' = Append(tasks, Task("trades", pair, "await", Len(g.calls)))
    /\ UNCHANGED <<clientVars, directVars, now, storeVars, marketDataAt, connVars, nextBroadcast>>

\* GET /api/market-data up to the await of krakenApi.getMultipleTickers
GetMarketData ==
    /\ Room(1)
    /\ LET g == StartCall(Gate, "Tickers", "", Len(tasks) + 1) IN
       /\ SetGate(g)
       /\ tasks' = Append(tasks, Task("marketData", "", "await", Len(g.calls)))
    /\ UNCHANGED <<clientVars, directVars, now, storeVars, marketDataAt, connVars, nextBroadcast>>

\* POST /api/refresh up to the await of krakenApi.getMultipleTickers
Refresh ==
    /\ Room(1 + 2 * NumPairs)
    /\ LET g == StartCall(Gate, "Tickers", "", Len(tasks) + 1) IN
       /\ SetGate(g)
       /\ tasks' = Append(tasks, Task("refresh", "", "await", Len(g.calls)))
    /\ UNCHANGED <<clientVars, directVars, now, storeVars, marketDataAt, connVars, nextBroadcast>>

(* ---------------- cached reads ---------------- *)

\* JSON null, as against 0 for undefined (Map.get on a missing key)
Null == -1

\* the :type segment of GET /api/cached/:type/:pair?, "depth" standing for
\* every value the switch has no case for
CachedTypes == {"ticker", "orderbook", "trades", "market-data", "depth"}

\* the optional :pair segment: a pair, or nothing ("")
CachedPairs == Pairs \cup {""}

\* a cached read that passes undefined on
OrNullKeepsUndefined(x) == x

\* `x || null` (routes.ts 86, 97, 104)
OrNull(x) == IF x = 0 THEN Null ELSE x

\* storage.getAllTickerData (storage.ts 37-39): the records of the map; the
\* model keeps them by pair and not in insertion order
getAllTickerData == [p \in {q \in Pairs : tickerData[q] # 0} |-> tickerData[p]]

\* the switch of GET /api/cached/:type/:pair? (routes.ts 82-121): the status
\* and the body of the response
Cached(type, pair) ==
    CASE type = "ticker" ->
            IF pair # ""
            THEN [status |-> 200, body |-> [sent |-> TRUE, data |-> OrNull(tickerData[pair])]]
            ELSE [status |-> 200, body |-> [sent |-> TRUE, all |-> getAllTickerData]]
      [] type = "orderbook" ->
            IF pair = ""
            THEN [status |-> 400, body |-> [sent |-> TRUE, error |-> "Pair required for order book"]]
            ELSE [status |-> 200, body |-> [sent |-> TRUE, data |-> OrNull(orderBooks[pair])]]
      [] type = "trades" ->
            IF pair = ""
            THEN [status |-> 400, body |-> [sent |-> TRUE, error |-> "Pair required for trades"]]
            ELSE [status |-> 200, body |-> [sent |-> TRUE, data |-> OrNull(recentTrades[pair])]]
      [] type = "market-data" ->
            [status |-> 200, body |-> [sent |-> TRUE, list |-> marketData,
                                       lastUpdated |-> lastUpdated]]
      [] OTHER -> [status |-> 400, body |-> [sent |-> TRUE, error |-> "Invalid type"]]

\* GET /api/cached/:type/:pair? (routes.ts 78-125): the handler awaits
\* MemStorage alone and so runs in one go
GetCached(type, pair) ==
    /\ Room(0)
    /\ LET r == Cached(type, pair) IN
       tasks' = Append(tasks, [Task("cached", pair, "done", 0) EXCEPT
                                  !.type = type, !.resp = r.status, !.body = r.body])
    /\ UNCHANGED <<clientVars, directVars, now, gateVars, storeVars, marketDataAt, calls, connVars,
                   nextBroadcast>>

(* ---------------- the rate-limit delay ends ---------------- *)

\* the setTimeout of rateLimitedFetch fires: lastRequestTime is set and the
\* request is issued
Wake(c) ==
    /\ calls[c].st = "sleeping"
    /\ now >= calls[c].wake
    /\ calls' = [calls EXCEPT ![c].st = "fetching"]
    /\ prevRequestTime' = IF lastRequestTime = 0 THEN -1 ELSE lastRequestTime
    /\ lastRequestTime' = now
    /\ UNCHANGED <<clientVars, directVars, now, storeVars, marketDataAt, tasks, connVars, nextBroadcast>>

(* ---------------- continuations after an upstream response ---------------- *)

\* Everything a continuation may change, as one value.
World ==
    [tickerData |-> tickerData, orderBooks |-> orderBooks, recentTrades |-> recentTrades,
     marketData |-> marketData, lastUpdated |-> lastUpdated, marketDataAt |-> marketDataAt,
     calls |-> calls, lrt |-> lastRequestTime, prev |-> prevRequestTime,
     tasks |-> tasks, sent |-> sent]

SetWorld(w) ==
    /\ tickerData' = w.tickerData
    /\ orderBooks' = w.orderBooks
    /\ recentTrades' = w.recentTrades
    /\ marketData' = w.marketData
    /\ lastUpdated' = w.lastUpdated
    /\ marketDataAt' = w.marketDataAt
    /\ calls' = w.calls
    /\ lastRequestTime' = w.lrt
    /\ prevRequestTime' = w.prev
    /\ tasks' = w.tasks
    /\ sent' = w.sent

\* res.json(...) / res.status(500).json(...): the handler ends
Reply(w, t, status) ==
    [w EXCEPT !.tasks[t].resp = status, !.tasks[t].pc = "done"]

\* an API method call made by a continuation
CallIn(w, api, pair, owner) ==
    LET g == StartCall([calls |-> w.calls, lrt |-> w.lrt, prev |-> w.prev], api, pair, owner) IN
    [w EXCEPT !.calls = g.calls, !.lrt = g.lrt, !.prev = g.prev]

\* storage.setMarketData
setMarketData(w, list) ==
    [w EXCEPT !.marketData = list, !.marketDataAt = now]

\* GET /api/ticker/:pair after the await (routes.ts 15-23)
OnTicker(w, t, c, outcome) ==
    IF makeRequestThrows(outcome)
    THEN Reply(w, t, 500)
    ELSE Reply([w EXCEPT !.tickerData[w.tasks[t].pair] = c], t, 200)

\* an order book kept when it comes from a later request than the response
OnOrderBookKeepsLaterRequest(w, t, c, outcome) ==
    IF makeRequestThrows(outcome)
    THEN Reply(w, t, 500)
    ELSE Reply([w EXCEPT !.orderBooks[w.tasks[t].pair] = IF @ > c THEN @ ELSE c], t, 200)

\* GET /api/orderbook/:pair after the await (routes.ts 32-40)
OnOrderBook(w, t, c, outcome) ==
    IF makeRequestThrows(outcome)
    THEN Reply(w, t, 500)
    ELSE Reply([w EXCEPT !.orderBooks[w.tasks[t].pair] = c], t, 200)

\* GET /api/trades/:pair after the await (routes.ts 49-57)
OnTrades(w, t, c, outcome) ==
    IF makeRequestThrows(outcome)
    THEN Reply(w, t, 500)
    ELSE Reply([w EXCEPT !.recentTrades[w.tasks[t].pair] = c], t, 200)

\* GET /api/market-data after the await (routes.ts 64-73)
OnMarketData(w, t, c, outcome) ==
    IF getMultipleTickersThrows(outcome)
    THEN Reply(w, t, 500)
    ELSE Reply([setMarketData(w, getMultipleTickers(Universe, c)) EXCEPT !.lastUpdated = now],
               t, 200)

\* POST /api/refresh: one turn of the loop over POPULAR_PAIRS up to the await
\* of Promise.all; both calls are made before the handler suspends
RefreshPair(w, t, i) ==
    LET w1 == CallIn(w, "Depth", Universe[i], t)
        w2 == CallIn(w1, "Trades", Universe[i], t)
    IN [w2 EXCEPT !.tasks[t].idx = i, !.tasks[t].pc = "awaitAll",
                  !.tasks[t].a = Len(w1.calls), !.tasks[t].b = Len(w2.calls),
                  !.tasks[t].fetched = @ \cup {Universe[i]}]

\* POST /api/refresh: the loop goes on, or ends with setLastUpdated and the
\* success response (routes.ts 165, 179-180)
RefreshNext(w, t) ==
    IF w.tasks[t].idx < NumPairs
    THEN RefreshPair(w, t, w.tasks[t].idx + 1)
    ELSE Reply([w EXCEPT !.lastUpdated = now], t, 200)

\* the bulk failure swallowed: the loop over the pairs starts all the same
RefreshBulkFailedGoesOn(w, t) == RefreshPair(w, t, 1)

\* POST /api/refresh: the bulk ticker fetch failed (routes.ts 181-187)
RefreshBulkFailed(w, t) == Reply(w, t, 500)

\* POST /api/refresh after the await of getMultipleTickers (routes.ts 161-165)
OnRefreshBulk(w, t, c, outcome) ==
    IF getMultipleTickersThrows(outcome)
    THEN RefreshBulkFailed(w, t)
    ELSE RefreshPair(setMarketData(w, getMultipleTickers(Universe, c)), t, 1)

\* the try/catch around the loop instead of inside it: the first failing pair
\* ends the refresh
RefreshPairFailedAborts(w, t) ==
    Reply([w EXCEPT !.tasks[t].failed = @ \cup {Universe[w.tasks[t].idx]}], t, 500)

\* POST /api/refresh: Promise.all rejected, the catch of the loop body runs
\* (routes.ts 174-176)
RefreshPairFailed(w, t) ==
    RefreshNext([w EXCEPT !.tasks[t].failed = @ \cup {Universe[w.tasks[t].idx]}], t)

\* POST /api/refresh: Promise.all fulfilled (routes.ts 172-173)
RefreshPairStored(w, t) ==
    LET p == Universe[w.tasks[t].idx] IN
    RefreshNext([w EXCEPT !.orderBooks[p] = w.tasks[t].a, !.recentTrades[p] = w.tasks[t].b,
                          !.tasks[t].stored = @ \cup {p}], t)

\* each result stored as it arrives, whatever becomes of the other call
OnRefreshPairStoresEach(w, t, c, outcome) ==
    LET other == IF c = w.tasks[t].a THEN w.tasks[t].b ELSE w.tasks[t].a
        p == Universe[w.tasks[t].idx]
        w1 == IF c = w.tasks[t].a THEN [w EXCEPT !.orderBooks[p] = c]
              ELSE [w EXCEPT !.recentTrades[p] = c]
    IN IF makeRequestThrows(outcome) THEN RefreshPairFailed(w, t)
       ELSE IF w.calls[other].st = "ok" THEN RefreshPairStored(w1, t)
       ELSE w1

\* POST /api/refresh when one of the two calls of Promise.all settles: it
\* rejects with the first failure and fulfils when both have succeeded
OnRefreshPair(w, t, c, outcome) ==
    LET other == IF c = w.tasks[t].a THEN w.tasks[t].b ELSE w.tasks[t].a IN
    IF makeRequestThrows(outcome) THEN RefreshPairFailed(w, t)
    ELSE IF w.calls[other].st = "ok" THEN RefreshPairStored(w, t)
    ELSE w

\* wss.clients: the connections the server tracks (open or closing)
Clients == {c \in Conns : readyState[c] \in {"open", "closing"}}

\* a broadcast that reaches only the connections that subscribed
BroadcastToSubscribers(w, list) ==
    LET msgs == [i \in 1..Len(list) |->
                    [type |-> "ticker", pair |-> list[i].pair, data |-> list[i].data,
                     src |-> "broadcast"]]
    IN [w EXCEPT !.sent = [c \in Conns |->
            IF c \in Clients /\ readyState[c] = "open" /\ handled[c] # <<>>
            THEN w.sent[c] \o msgs ELSE w.sent[c]]]

\* the periodic broadcast of one list (routes.ts 268-280)
Broadcast(w, list) ==
    LET msgs == [i \in 1..Len(list) |->
                    [type |-> "ticker", pair |-> list[i].pair, data |-> list[i].data,
                     src |-> "broadcast"]]
    IN [w EXCEPT !.sent = [c \in Conns |->
            IF c \in Clients /\ readyState[c] = "open" THEN w.sent[c] \o msgs ELSE w.sent[c]]]

\* a failed cycle that falls back on the stored list and broadcasts it
CycleFailedSendsStored(w, t) ==
    [Broadcast(w, w.marketData) EXCEPT !.tasks[t].pc = "done"]

\* the catch of the broadcast callback: the error is logged (routes.ts 281-283)
CycleFailed(w, t) == [w EXCEPT !.tasks[t].pc = "done"]

\* a cycle that broadcasts what the store holds and stores the fetched list
\* afterwards
OnCycleSendsThenStores(w, t, c, outcome) ==
    IF getMultipleTickersThrows(outcome)
    THEN CycleFailed(w, t)
    ELSE [setMarketData(Broadcast(w, w.marketData), getMultipleTickers(Universe, c))
             EXCEPT !.tasks[t].pc = "done"]

\* the broadcast callback after the await (routes.ts 264-283)
OnCycle(w, t, c, outcome) ==
    IF getMultipleTickersThrows(outcome)
    THEN CycleFailed(w, t)
    ELSE LET list == getMultipleTickers(Universe, c) IN
         [Broadcast(setMarketData(w, list), list) EXCEPT !.tasks[t].pc = "done"]

\* the handler that awaits call c, resumed
Continue(w, t, c, outcome) ==
    CASE w.tasks[t].kind = "ticker" -> OnTicker(w, t, c, outcome)
      [] w.tasks[t].kind = "orderbook" -> OnOrderBook(w, t, c, outcome)
      [] w.tasks[t].kind = "trades" -> OnTrades(w, t, c, outcome)
      [] w.tasks[t].kind = "marketData" -> OnMarketData(w, t, c, outcome)
      [] w.tasks[t].kind = "cycle" -> OnCycle(w, t, c, outcome)
      [] w.tasks[t].kind = "refresh" /\ w.tasks[t].pc = "await" -> OnRefreshBulk(w, t, c, outcome)
      [] OTHER -> OnRefreshPair(w, t, c, outcome)

Awaits(t, c) ==
    \/ tasks[t].pc = "await" /\ tasks[t].a = c
    \/ tasks[t].pc = "awaitAll" /\ c \in {tasks[t].a, tasks[t].b}

\* call c ends with the given outcome, and the handler awaiting it (if it
\* still does) runs to its next suspension
Settle(c, outcome) ==
    /\ calls[c].st = "fetching"
    /\ outcome = "noData" => calls[c].api = "Tickers"
    /\ LET w == [World EXCEPT !.calls[c].st = outcome]
           t == calls[c].owner
       IN SetWorld(IF Awaits(t, c) THEN Continue(w, t, c, outcome) ELSE w)
    /\ UNCHANGED <<clientVars, now, readyState, pingNext, handled, nextBroadcast>>

\* the upstream answers call c: makeRequest returns or throws
Respond(c, outcome) ==
    /\ Settle(c, outcome)
    /\ UNCHANGED directVars

\* what getMultipleTickers(pairs) returns on a result, with the key each pair
\* resolved to
BatchCall(pairs, result) ==
    [op |-> "getMultipleTickers", pairs |-> pairs, result |-> result,
     keys |-> [i \in 1..Len(pairs) |-> pairKey(pairs[i], result)],
     out |-> mapTickers(pairs, result)]

\* the results of a Ticker request for the pairs of the universe: at most
\* one key for each pair asked for
UniverseResults == {result \in TickerResults : Len(result) <= NumPairs}

\* getMultipleTickers(POPULAR_PAIRS) on each of them
UniverseCall == [result \in UniverseResults |-> BatchCall(Universe, result)]

\* the upstream answers the bulk Ticker request c with status 200, an empty
\* error list and the given result: getMultipleTickers(POPULAR_PAIRS) maps
\* the pairs over it
RespondTickers(c, result) ==
    /\ calls[c].api = "Tickers"
    /\ Settle(c, IF UniverseCall[result].out.ok THEN "ok" ELSE "noData")
    /\ returned' = UniverseCall[result]
    /\ UNCHANGED storeLog

(* ---------------- operations called directly ---------------- *)

systemVars == <<serverVars, clientVars>>

\* the pair lists of the direct requests: the first pairs of POPULAR_PAIRS,
\* one by one and as a list
BatchRequests ==
    {SubSeq(POPULAR_PAIRS, 1, n) : n \in 1..MaxBatch} \cup {<<POPULAR_PAIRS[n]>> : n \in 1..MaxBatch}

\* One direct call is observed in a behaviour.
\* getMultipleTickers(pairs), the upstream answering with the given result
ApiGetMultipleTickers(pairs, result) ==
    /\ returned = NoCall
    /\ returned' = BatchCall(pairs, result)
    /\ UNCHANGED <<systemVars, storeLog>>

\* getTickerData(pair), the upstream answering with the given result
ApiGetTickerData(pair, result) ==
    /\ returned = NoCall
    /\ returned' = [op |-> "getTickerData", pair |-> pair, result |-> result,
                    out |-> getTickerData(pair, result)]
    /\ UNCHANGED <<systemVars, storeLog>>

\* getOrderBook(pair), the upstream answering with the given two sides
ApiGetOrderBook(pair, data) ==
    /\ returned = NoCall
    /\ returned' = [op |-> "getOrderBook", pair |-> pair, result |-> data,
                    out |-> getOrderBook(pair, data)]
    /\ UNCHANGED <<systemVars, storeLog>>

\* the records put into the store directly
StoreRecords == 1..MaxRecords

\* a put that leaves an entry already there alone
setTickerDataKeepsFirst(pair, data) ==
    /\ tickerData' = [tickerData EXCEPT ![pair] = IF @ = 0 THEN data ELSE @]
    /\ UNCHANGED <<orderBooks, recentTrades, marketData, lastUpdated>>

\* MemStorage.setTickerData (storage.ts 41-43)
setTickerData(pair, data) ==
    /\ tickerData' = [tickerData EXCEPT ![pair] = data]
    /\ UNCHANGED <<orderBooks, recentTrades, marketData, lastUpdated>>

\* MemStorage.setOrderBook (storage.ts 53-55)
setOrderBook(pair, data) ==
    /\ orderBooks' = [orderBooks EXCEPT ![pair] = data]
    /\ UNCHANGED <<tickerData, recentTrades, marketData, lastUpdated>>

\* MemStorage.setRecentTrades (storage.ts 61-63)
setRecentTrades(pair, data) ==
    /\ recentTrades' = [recentTrades EXCEPT ![pair] = data]
    /\ UNCHANGED <<tickerData, orderBooks, marketData, lastUpdated>>

\* MemStorage.getTickerData, getOrderBook, getRecentTrades (storage.ts 45-47,
\* 57-59, 65-67): Map.get, undefined (0) without an entry
storageGet(kind, pair) ==
    CASE kind = "ticker" -> tickerData[pair]
      [] kind = "orderBook" -> orderBooks[pair]
      [] kind = "trades" -> recentTrades[pair]

\* one direct put
Put(kind, pair, data) ==
    /\ Len(storeLog) < MaxOps
    /\ CASE kind = "ticker" -> setTickerData(pair, data)
         [] kind = "orderBook" -> setOrderBook(pair, data)
         [] kind = "trades" -> setRecentTrades(pair, data)
    /\ storeLog' = Append(storeLog, [kind |-> kind, pair |-> pair, data |-> data])
    /\ UNCHANGED <<clientVars, now, gateVars, marketDataAt, calls, tasks, connVars, nextBroadcast,
                   returned>>

(* ---------------- the broadcast timer ---------------- *)

\* the callback without its guard
CycleNeverSkips == FALSE

\* the guard of the broadcast callback: nothing to do without clients
\* (routes.ts 260)
CycleSkips == Cardinality(Clients) = 0

\* the setInterval callback of routes.ts 259-284 up to its first await
BroadcastTimer ==
    /\ now >= nextBroadcast
    /\ nextBroadcast' = now + BROADCAST_INTERVAL_MS
    /\ IF CycleSkips
       THEN UNCHANGED <<gateVars, calls, tasks>>
       ELSE /\ Room(1)
            /\ LET g == StartCall(Gate, "Tickers", "", Len(tasks) + 1) IN
               /\ SetGate(g)
               /\ tasks' = Append(tasks, Task("cycle", "", "await", Len(g.calls)))
    /\ UNCHANGED <<clientVars, directVars, now, storeVars, marketDataAt, connVars>>

(* ---------------- WebSocket connections ---------------- *)

\* what a client may send: a subscribe message with or without the pairs
\* field, or a message of another type
SubscribeLists == {<<Universe[i]>> : i \in 1..NumPairs} \cup {Universe}
Messages ==
    [type : {"subscribe"}, hasPairs : {TRUE}, pairs : SubscribeLists]
    \cup {[type |-> "subscribe", hasPairs |-> FALSE, pairs |-> <<>>],
          [type |-> "other", hasPairs |-> FALSE, pairs |-> <<>>]}

\* wss.on('connection'): the handlers are attached and pingInterval is set
Connect(c) ==
    /\ readyState[c] = "none"
    /\ Events < MaxEvents
    /\ \A d \in Conns : d < c => readyState[d] # "none"
    /\ readyState' = [readyState EXCEPT ![c] = "open"]
    /\ pingNext' = [pingNext EXCEPT ![c] = now + PING_INTERVAL_MS]
    /\ UNCHANGED <<clientVars, directVars, now, gateVars, storeVars, marketDataAt, calls, tasks, sent, handled,
                   nextBroadcast>>

\* `storage.getX(pair) || krakenApi.getX(pair)` (routes.ts 210-212): the left
\* operand is the promise storage.getX returns, an object and so truthy; the
\* right operand is never evaluated and Promise.all yields the stored value,
\* undefined (0) when the store has no entry
StoredOrFetched(stored) == stored

\* the order book sent ahead of the ticker
InitialPushSwapped(pair) ==
    << [type |-> "orderBook", pair |-> pair, data |-> StoredOrFetched(orderBooks[pair]),
        src |-> "push"],
       [type |-> "ticker", pair |-> pair, data |-> StoredOrFetched(tickerData[pair]),
        src |-> "push"],
       [type |-> "trades", pair |-> pair, data |-> StoredOrFetched(recentTrades[pair]),
        src |-> "push"] >>

\* the three messages of one pair (routes.ts 216-232)
InitialPush(pair) ==
    << [type |-> "ticker", pair |-> pair, data |-> StoredOrFetched(tickerData[pair]),
        src |-> "push"],
       [type |-> "orderBook", pair |-> pair, data |-> StoredOrFetched(orderBooks[pair]),
        src |-> "push"],
       [type |-> "trades", pair |-> pair, data |-> StoredOrFetched(recentTrades[pair]),
        src |-> "push"] >>

RECURSIVE PushAll(_, _)
\* the loop over the requested pairs (routes.ts 207-237); no call is made
\* and every await is of a settled promise, so the loop runs in one go
PushAll(pairs, open) ==
    IF pairs = <<>> THEN <<>>
    ELSE (IF open THEN InitialPush(Head(pairs)) ELSE <<>>) \o PushAll(Tail(pairs), open)

\* the pairs field ignored
RequestedPairsAlwaysAll(m) == Universe

\* data.pairs || POPULAR_PAIRS (routes.ts 204)
RequestedPairs(m) == IF m.hasPairs THEN m.pairs ELSE Universe

\* ws.on('message') (routes.ts 198-242)
Message(c, m) ==
    /\ readyState[c] \in {"open", "closing"}
    /\ Len(handled[c]) < MaxMsgs
    /\ Events < MaxEvents
    /\ handled' = [handled EXCEPT ![c] = Append(@, [msg |-> m, open |-> readyState[c] = "open",
                                                     at |-> Len(sent[c])])]
    /\ sent' = [sent EXCEPT ![c] =
                  IF m.type = "subscribe"
                  THEN @ \o PushAll(RequestedPairs(m), readyState[c] = "open")
                  ELSE @]
    /\ UNCHANGED <<clientVars, directVars, now, gateVars, storeVars, marketDataAt, calls, tasks, readyState, pingNext,
                   nextBroadcast>>

\* the transport leaves the open state (a close frame arrived, or the socket
\* ended); the server still tracks the connection
Closing(c) ==
    /\ readyState[c] = "open"
    /\ readyState' = [readyState EXCEPT ![c] = "closing"]
    /\ UNCHANGED <<clientVars, directVars, now, gateVars, storeVars, marketDataAt, calls, tasks, pingNext, sent, handled,
                   nextBroadcast>>

\* the 'close' event: the server drops the connection from wss.clients and
\* ws.on('close') logs (routes.ts 244-246)
Close(c) ==
    /\ readyState[c] \in {"open", "closing"}
    /\ readyState' = [readyState EXCEPT ![c] = "closed"]
    /\ UNCHANGED <<clientVars, directVars, now, gateVars, storeVars, marketDataAt, calls, tasks, pingNext, sent, handled,
                   nextBroadcast>>

\* a heartbeat that pings whatever the state of the transport
PingUnchecked(c) ==
    /\ pingNext[c] # 0
    /\ now >= pingNext[c]
    /\ sent' = [sent EXCEPT ![c] = Append(@, [type |-> "ping", pair |-> "", data |-> 0,
                                               src |-> "heartbeat"])]
    /\ pingNext' = [pingNext EXCEPT ![c] = now + PING_INTERVAL_MS]
    /\ UNCHANGED <<clientVars, directVars, now, gateVars, storeVars, marketDataAt, calls, tasks, readyState, handled,
                   nextBroadcast>>

\* a heartbeat that stays scheduled after the connection has left the open
\* state
PingKeepsTimer(c) ==
    /\ pingNext[c] # 0
    /\ now >= pingNext[c]
    /\ sent' = [sent EXCEPT ![c] =
                  IF readyState[c] = "open"
                  THEN Append(@, [type |-> "ping", pair |-> "", data |-> 0, src |-> "heartbeat"])
                  ELSE @]
    /\ pingNext' = [pingNext EXCEPT ![c] = now + PING_INTERVAL_MS]
    /\ UNCHANGED <<clientVars, directVars, now, gateVars, storeVars, marketDataAt, calls, tasks, readyState, handled,
                   nextBroadcast>>

\* the pingInterval callback (routes.ts 249-255)
Ping(c) ==
    /\ pingNext[c] # 0
    /\ now >= pingNext[c]
    /\ IF readyState[c] = "open"
       THEN /\ sent' = [sent EXCEPT ![c] = Append(@, [type |-> "ping", pair |-> "", data |-> 0,
                                                      src |-> "heartbeat"])]
            /\ pingNext' = [pingNext EXCEPT ![c] = now + PING_INTERVAL_MS]
       ELSE /\ pingNext' = [pingNext EXCEPT ![c] = 0]
            /\ UNCHANGED sent
    /\ UNCHANGED <<clientVars, directVars, now, gateVars, storeVars, marketDataAt, calls, tasks, readyState, handled,
                   nextBroadcast>>

(* ---------------- the client: useWebSocketData ---------------- *)

\* undefined: no data under a query key, no data field in a message
Undefined == [undefined |-> TRUE]

Versions == 1..MaxVersions

\* a record of the market list (shared schema, marketDataSchema) and a
\* ticker record (tickerDataSchema), with the fields the model keeps
MarketRecord(pair, v) == [pair |-> pair, lastPrice |-> v, bid |-> v]
TickerRecord(pair, v) == [pair |-> pair, lastPrice |-> v, bid |-> v, spread |-> v]

\* what the server sends: broadcast messages carry a record of the market
\* list (routes.ts 268-272); initial-push messages carry the stored record,
\* and no data field when the store has no entry (routes.ts 216-232)
Pushes ==
    {[type |-> "ticker", pair |-> p, data |-> MarketRecord(p, v)] : p \in Pairs, v \in Versions}
    \cup {[type |-> "ticker", pair |-> p, data |-> TickerRecord(p, v)] : p \in Pairs, v \in Versions}
    \cup {[type |-> "ticker", pair |-> p, data |-> Undefined] : p \in Pairs}
    \cup {[type |-> t, pair |-> p, data |-> [pair |-> p]] :
             t \in {"orderBook", "trades"}, p \in Pairs}
    \cup {[type |-> t, pair |-> p, data |-> Undefined] :
             t \in {"orderBook", "trades"}, p \in Pairs}

\* { ...item, ...data }
Spread(item, data) ==
    IF data = Undefined THEN item
    ELSE [f \in (DOMAIN item) \cup (DOMAIN data) |->
             IF f \in DOMAIN data THEN data[f] ELSE item[f]]

\* item.pair === message.pair on an item that is not undefined
SamePair(item, pair) == "pair" \in DOMAIN item /\ item.pair = pair

\* the updater of the market-data cache (part_003 164-172): reading .pair of
\* an item that is undefined throws
mergeTicker(oldData, message) ==
    IF oldData = Undefined THEN [threw |-> FALSE, data |-> [list |-> <<message.data>>]]
    ELSE IF \E i \in 1..Len(oldData.list) : oldData.list[i] = Undefined
    THEN [threw |-> TRUE, data |-> oldData]
    ELSE LET updated == [i \in 1..Len(oldData.list) |->
                            IF SamePair(oldData.list[i], message.pair)
                            THEN Spread(oldData.list[i], message.data)
                            ELSE oldData.list[i]]
         IN [threw |-> FALSE,
             data |-> [list |-> IF \E i \in 1..Len(updated) : SamePair(updated[i], message.pair)
                                THEN updated
                                ELSE Append(updated, message.data)]]

\* queryClient.setQueryData(key, data): undefined data is ignored
setQueryData(old, data) == IF data = Undefined THEN old ELSE data

\* ws.onmessage (part_003 155-186); messages still arrive while the socket
\* is closing
OnMessage(i, message) ==
    /\ i \in 1..Len(sockets)
    /\ sockets[i] \in {"open", "closing"}
    /\ Len(received) < MaxPushes
    /\ received' = Append(received, message)
    /\ queryData' =
         CASE message.type = "ticker" ->
                [queryData EXCEPT
                    !.ticker[message.pair] = setQueryData(@, message.data),
                    !.marketData = setQueryData(@, mergeTicker(@, message).data)]
           [] message.type = "orderBook" ->
                [queryData EXCEPT !.orderBook[message.pair] = setQueryData(@, message.data)]
           [] OTHER ->
                [queryData EXCEPT !.trades[message.pair] = setQueryData(@, message.data)]
    /\ UNCHANGED <<serverVars, directVars, hookVars>>

\* the query of useMarketData (part_003 95-101) resolves with the list of
\* GET /api/market-data: one record for each pair of the universe
LoadMarketData(v) ==
    /\ queryData' = [queryData EXCEPT
                        !.marketData = [list |-> [i \in 1..NumPairs |->
                                                    MarketRecord(Universe[i], v)]]]
    /\ UNCHANGED <<serverVars, directVars, hookVars, received>>

\* connectWebSocket (part_003 136-204) on the state of the hook
connectWebSocket(h) ==
    IF h.isUnmounted THEN h
    ELSE [h EXCEPT !.sockets = Append(@, "connecting"), !.wsRef = Len(h.sockets) + 1]

\* ws.onopen (part_003 146-153): the socket is open and the subscribe
\* message goes out
OnOpen(i) ==
    /\ i \in 1..Len(sockets)
    /\ sockets[i] = "connecting"
    /\ sockets' = [sockets EXCEPT ![i] = "open"]
    /\ UNCHANGED <<serverVars, directVars, queryData, received, isUnmounted, wsRef,
                   reconnectTimeout>>

\* an onclose that schedules the reconnect though the hook is unmounted
OnCloseReconnectsAlways(i) ==
    /\ i \in 1..Len(sockets)
    /\ sockets[i] # "closed"
    /\ sockets' = [sockets EXCEPT ![i] = "closed"]
    /\ reconnectTimeout' = IF sockets'[wsRef] = "closed" THEN TRUE ELSE reconnectTimeout
    /\ UNCHANGED <<serverVars, directVars, queryData, received, isUnmounted, wsRef>>

\* the socket is closed (by the server, by the network or after close()) and
\* ws.onclose runs (part_003 192-199)
OnClose(i) ==
    /\ i \in 1..Len(sockets)
    /\ sockets[i] # "closed"
    /\ sockets' = [sockets EXCEPT ![i] = "closed"]
    /\ reconnectTimeout' = IF ~isUnmounted /\ sockets'[wsRef] = "closed"
                           THEN TRUE ELSE reconnectTimeout
    /\ UNCHANGED <<serverVars, directVars, queryData, received, isUnmounted, wsRef>>

\* the reconnect setTimeout fires (part_003 195-197)
ReconnectTimer ==
    /\ reconnectTimeout
    /\ Len(sockets) < MaxSockets
    /\ reconnectTimeout' = FALSE
    /\ LET h == connectWebSocket([isUnmounted |-> isUnmounted, wsRef |-> wsRef,
                                  sockets |-> sockets])
       IN sockets' = h.sockets /\ wsRef' = h.wsRef
    /\ UNCHANGED <<serverVars, directVars, queryData, received, isUnmounted>>

\* the cleanup of the effect (part_003 208-216)
Unmount ==
    /\ ~isUnmounted
    /\ isUnmounted' = TRUE
    /\ reconnectTimeout' = FALSE
    /\ sockets' = IF wsRef # 0 /\ sockets[wsRef] \in {"connecting", "open"}
                  THEN [sockets EXCEPT ![wsRef] = "closing"]
                  ELSE sockets
    /\ UNCHANGED <<serverVars, directVars, queryData, received, wsRef>>

(* ---------------- the system ---------------- *)

Init ==
    /\ now = StartTime
    /\ lastRequestTime = 0
    /\ prevRequestTime = -1
    /\ tickerData = [p \in Pairs |-> 0]
    /\ orderBooks = [p \in Pairs |-> 0]
    /\ recentTrades = [p \in Pairs |-> 0]
    /\ marketData = <<>>
    /\ lastUpdated = 0
    /\ marketDataAt = 0
    /\ calls = <<>>
    /\ tasks = <<>>
    /\ readyState = [c \in Conns |-> "none"]
    /\ pingNext = [c \in Conns |-> 0]
    /\ sent = [c \in Conns |-> <<>>]
    /\ handled = [c \in Conns |-> <<>>]
    /\ nextBroadcast = StartTime + BROADCAST_INTERVAL_MS
    /\ returned = NoCall
    /\ storeLog = <<>>
    /\ queryData = [ticker |-> [p \in Pairs |-> Undefined],
                    orderBook |-> [p \in Pairs |-> Undefined],
                    trades |-> [p \in Pairs |-> Undefined],
                    marketData |-> Undefined]
    /\ isUnmounted = FALSE
    /\ wsRef = 1
    /\ reconnectTimeout = FALSE
    /\ sockets = <<"connecting">>
    /\ received = <<>>

\* the calls in flight move on
Upstream ==
    \/ \E c \in 1..Len(calls) : Wake(c)
    \/ \E c \in 1..Len(calls), o \in Outcomes : Respond(c, o)

\* the Request Gateway's on-demand operations
OnDemand ==
    \/ \E p \in Pairs : GetTicker(p)
    \/ \E p \in Pairs : GetOrderBook(p)
    \/ \E p \in Pairs : GetTrades(p)
    \/ GetMarketData
    \/ Refresh

\* the Fan-out Channel and the Refresh Loop
FanOut ==
    \/ BroadcastTimer
    \/ \E c \in Conns : Connect(c)
    \/ \E c \in Conns, m \in Messages : Message(c, m)
    \/ \E c \in Conns : Closing(c)
    \/ \E c \in Conns : Close(c)
    \/ \E c \in Conns : Ping(c)

\* the clock
Clock ==
    \/ TickFine
    \/ TickPeriod
    \/ \E c \in Conns : TickPing(c)
    \/ \E c \in 1..Len(calls) : TickWake(c)

\* the reads served from the Snapshot Store
CachedReads == \E type \in CachedTypes, pair \in CachedPairs : GetCached(type, pair)

\* the client
Client ==
    \/ \E v \in Versions : LoadMarketData(v)
    \/ \E i \in 1..MaxSockets : OnOpen(i)
    \/ \E i \in 1..MaxSockets, message \in Pushes : OnMessage(i, message)
    \/ \E i \in 1..MaxSockets : OnClose(i)
    \/ ReconnectTimer
    \/ Unmount

Next == Clock \/ OnDemand \/ CachedReads \/ Upstream \/ FanOut \/ Client

\* the whole gateway
Spec == Init /\ [][Next]_vars

\* the on-demand operations alone, no connection attached, the clock at fine grain
NextHttp ==
    \/ TickFine
    \/ \E c \in 1..Len(calls) : TickWake(c)
    \/ OnDemand
    \/ Upstream

SpecHttp == Init /\ [][NextHttp]_vars

\* connections, the broadcast timer and the reads that fill the store, the
\* clock moving period by period
NextWs ==
    \/ TickPeriod
    \/ FanOut
    \/ Upstream
    \/ \E p \in Pairs : GetTicker(p)
    \/ GetMarketData

SpecWs == Init /\ [][NextWs]_vars

\* the normalisers of the Upstream Client, called directly on upstream results
NextApi ==
    \/ \E pairs \in BatchRequests, result \in TickerResults : ApiGetMultipleTickers(pairs, result)
    \/ \E pair \in Pairs, result \in TickerResults : ApiGetTickerData(pair, result)
    \/ \E pair \in Pairs, data \in Depths : ApiGetOrderBook(pair, data)

SpecApi == Init /\ [][NextApi]_vars

\* the callers of getMultipleTickers(POPULAR_PAIRS), the upstream answering
\* with results: get-market-data and the timer-driven cycle
NextBatch ==
    \/ TickPeriod
    \/ \E c \in 1..Len(calls) : TickWake(c)
    \/ \E c \in 1..Len(calls) : Wake(c)
    \/ GetMarketData
    \/ \E c \in Conns : Connect(c)
    \/ BroadcastTimer
    \/ \E c \in 1..Len(calls), o \in {"httpError", "apiError"} : Respond(c, o)
    \/ \E c \in 1..Len(calls), result \in UniverseResults : RespondTickers(c, result)

SpecBatch == Init /\ [][NextBatch]_vars

\* the Snapshot Store alone, its put operations called directly
NextStore ==
    \E kind \in {"ticker", "orderBook", "trades"}, pair \in Pairs, data \in StoreRecords :
        Put(kind, pair, data)

SpecStore == Init /\ [][NextStore]_vars

\* cached reads among the single-call handlers that fill the store
NextCached ==
    \/ \E c \in 1..Len(calls) : TickWake(c)
    \/ \E p \in Pairs : GetTicker(p)
    \/ \E p \in Pairs : GetOrderBook(p)
    \/ \E p \in Pairs : GetTrades(p)
    \/ GetMarketData
    \/ CachedReads
    \/ Upstream

SpecCached == Init /\ [][NextCached]_vars

\* force-refresh among the on-demand fetches of order books and trades
NextRefresh ==
    \/ \E c \in 1..Len(calls) : TickWake(c)
    \/ \E p \in Pairs : GetOrderBook(p)
    \/ \E p \in Pairs : GetTrades(p)
    \/ Refresh
    \/ Upstream

SpecRefresh == Init /\ [][NextRefresh]_vars

\* no call is waiting in the rate-limit gate
NoCallWaiting == \A c \in 1..Len(calls) : calls[c].st # "sleeping"

\* callers that do not overlap: a call is made only when the request of
\* every earlier call has been issued
NextSerial ==
    \/ TickFine
    \/ \E c \in 1..Len(calls) : TickWake(c)
    \/ NoCallWaiting /\ \E p \in Pairs : GetTicker(p)
    \/ NoCallWaiting /\ \E p \in Pairs : GetOrderBook(p)
    \/ NoCallWaiting /\ GetMarketData
    \/ Upstream

SpecSerial == Init /\ [][NextSerial]_vars

\* the timer-driven cycle and get-market-data, which write the same list
NextCycle ==
    \/ TickPeriod
    \/ \E c \in 1..Len(calls) : TickWake(c)
    \/ \E c \in Conns : Connect(c)
    \/ BroadcastTimer
    \/ GetMarketData
    \/ Upstream

SpecCycle == Init /\ [][NextCycle]_vars

\* the heartbeat of the connections; the event loop runs every timer that
\* is due, and time does not stop
NextHeartbeat ==
    \/ TickPeriod
    \/ \E c \in Conns : TickPing(c)
    \/ \E c \in Conns : Connect(c)
    \/ \E c \in Conns : Closing(c)
    \/ \E c \in Conns : Close(c)
    \/ \E c \in Conns : Ping(c)

SpecHeartbeat ==
    /\ Init
    /\ [][NextHeartbeat]_vars
    /\ \A c \in Conns : WF_vars(TickPing(c)) /\ WF_vars(Ping(c))

\* the client alone
SpecClient == Init /\ [][Client]_vars

(* ---------------- properties ---------------- *)

Failures == {"httpError", "apiError", "noData"}
TaskIds == 1..Len(tasks)
CallIds == 1..Len(calls)

\* C1: any two upstream requests of the one KrakenApiService are issued at
\* least rateLimitMs apart, whoever the callers are and however their calls
\* overlap.  (The issue times never decrease, so it is enough to compare each
\* request with the one before it.)
C1_MinInterRequestDelay ==
    prevRequestTime >= 0 => lastRequestTime - prevRequestTime >= rateLimitMs

\* C2: when the broadcast timer fires while no connection is open, no
\* upstream call is made, no cycle starts, the store is not written and
\* nothing is sent.
C2_SkipIfNoneOpen ==
    [][(nextBroadcast' # nextBroadcast /\ \A c \in Conns : readyState[c] # "open")
         => (UNCHANGED <<calls, tasks, gateVars, storeVars, sent>>)]_vars

\* C2 (amended): when the broadcast timer fires while the server tracks no
\* connection (wss.clients is empty), no upstream call is made, no cycle
\* starts, the store is not written and nothing is sent.
C2_SkipIfNoClients ==
    [][(nextBroadcast' # nextBroadcast /\ Clients = {})
         => (UNCHANGED <<calls, tasks, gateVars, storeVars, sent>>)]_vars

\* the timer has fired, no connection was ever attached, and nothing happened
C2_Witness ==
    /\ nextBroadcast # StartTime + BROADCAST_INTERVAL_MS
    /\ \A c \in Conns : readyState[c] = "none"
    /\ calls = <<>>
    /\ tasks = <<>>
    /\ marketData = <<>>

\* C3: no initial-push message carries an absent record: where the store has
\* no entry, the record is fetched from the Upstream Client.
C3_PushCarriesRecord ==
    \A c \in Conns : \A i \in 1..Len(sent[c]) :
        sent[c][i].src = "push" => sent[c][i].data # 0

Shape(m) == <<m.type, m.pair, m.src>>
PushShape(pair) ==
    << <<"ticker", pair, "push">>, <<"orderBook", pair, "push">>, <<"trades", pair, "push">> >>

\* connection c handled, as its first message and while open, a subscribe
\* message naming the single pair p
SingleSubscribe(c, p) ==
    /\ Len(handled[c]) >= 1
    /\ handled[c][1].open
    /\ handled[c][1].msg = [type |-> "subscribe", hasPairs |-> TRUE, pairs |-> <<p>>]

\* the part of the log of c written from the handling of its first message
\* up to the handling of its second one
FirstReplyEnd(c) == IF Len(handled[c]) >= 2 THEN handled[c][2].at ELSE Len(sent[c])

\* the three messages follow each other at the place of the log where the
\* handler ran, and they are all the initial-push messages sent for this
\* subscription
ThreeInARow(c, p) ==
    LET k == handled[c][1].at IN
    /\ FirstReplyEnd(c) >= k + 3
    /\ [i \in 1..3 |-> Shape(sent[c][k + i])] = PushShape(p)
    /\ {i \in (k + 1)..FirstReplyEnd(c) : sent[c][i].src = "push"} = (k + 1)..(k + 3)

\* C4: a subscribe message naming one pair, the first message of an open
\* connection, yields exactly the three messages ticker, orderBook, trades of
\* that pair, and no periodic-broadcast message is sent on the connection
\* before them.
C4_ThreeBeforeAnyBroadcast ==
    \A c \in Conns : \A p \in Pairs :
        SingleSubscribe(c, p) =>
            /\ ThreeInARow(c, p)
            /\ \A i \in 1..handled[c][1].at : sent[c][i].src # "broadcast"

\* C4 (amended): ... yields exactly the three messages ticker, orderBook,
\* trades of that pair, sent one after the other with nothing between them;
\* periodic-broadcast messages of a cycle that ended before the subscribe
\* message was handled may precede them.
C4_ThreeInARow ==
    \A c \in Conns : \A p \in Pairs : SingleSubscribe(c, p) => ThreeInARow(c, p)

\* a broadcast reached the connection first, then the three messages
C4_Witness ==
    \E c \in Conns : \E p \in Pairs :
        /\ SingleSubscribe(c, p)
        /\ handled[c][1].at > 0
        /\ sent[c][1].src = "broadcast"
        /\ Len(sent[c]) = handled[c][1].at + 3

\* C5: the market list is never newer than lastUpdated.
C5_ListNotNewerThanLastUpdated ==
    marketDataAt # 0 => lastUpdated >= marketDataAt

\* C6: a successful bulk ticker refresh leaves, for every pair of the
\* universe, the record it produced as the ticker entry of the store.
C6_BulkRefreshFillsTickers ==
    [][marketData' # marketData =>
          \A i \in 1..Len(marketData') :
              tickerData'[marketData'[i].pair] = marketData'[i].data]_vars

\* C7: at most one timer-driven cycle is in flight.
C7_OneCycleInFlight ==
    Cardinality({t \in TaskIds : tasks[t].kind = "cycle" /\ tasks[t].pc # "done"}) <= 1

ReadKinds == {"ticker", "orderbook", "trades", "marketData"}

\* C8: when the upstream answers get-ticker, get-orderbook, get-trades or
\* get-market-data with a non-empty error list, the request fails (status
\* 500) and the step leaves every store map, the market list and lastUpdated
\* as they were.
C8_ErrorListLeavesStore ==
    [][\A c \in CallIds :
          (/\ calls[c].st = "fetching"
           /\ calls'[c].st = "apiError"
           /\ tasks[calls[c].owner].kind \in ReadKinds)
          => (/\ UNCHANGED storeVars
              /\ tasks'[calls[c].owner].resp = 500
              /\ tasks'[calls[c].owner].pc = "done")]_vars

\* a read failed on an error list while the store already held data
C8_Witness ==
    \E t \in TaskIds :
        /\ tasks[t].kind \in ReadKinds
        /\ tasks[t].resp = 500
        /\ calls[tasks[t].a].st = "apiError"
        /\ marketData # <<>>

\* C9: in force-refresh, a pair whose order-book or trade fetch failed does
\* not end the loop: the handler is never left waiting on a failed pair, and
\* when it ends every pair of the universe has been fetched, every pair that
\* did not fail has been stored, lastUpdated is set and the response is the
\* success response.
C9_PairFailureDoesNotAbort ==
    \A t \in TaskIds :
        (tasks[t].kind = "refresh" /\ tasks[t].failed # {}) =>
            /\ tasks[t].pc = "awaitAll" => Universe[tasks[t].idx] \notin tasks[t].failed
            /\ tasks[t].pc = "done" =>
                  /\ tasks[t].resp = 200
                  /\ tasks[t].fetched = Pairs
                  /\ tasks[t].stored = Pairs \ tasks[t].failed
                  /\ lastUpdated # 0

\* the first pair failed, the second was fetched and stored, the refresh succeeded
C9_Witness ==
    \E t \in TaskIds :
        /\ tasks[t].kind = "refresh"
        /\ tasks[t].pc = "done"
        /\ Universe[1] \in tasks[t].failed
        /\ Universe[NumPairs] \in tasks[t].stored
        /\ orderBooks[Universe[NumPairs]] # 0
        /\ tasks[t].resp = 200

\* C10: in force-refresh, a failure of the bulk ticker fetch ends the
\* handler in that step: no order-book or trade call is created, the store
\* (market list, order books, trades, lastUpdated) is left as it was and the
\* response is the failure response.
C10_BulkFailureAborts ==
    [][\A t \in TaskIds :
          (/\ tasks[t].kind = "refresh"
           /\ tasks[t].pc = "await"
           /\ calls[tasks[t].a].st = "fetching"
           /\ calls'[tasks[t].a].st \in Failures)
          => (/\ UNCHANGED storeVars
              /\ Len(calls') = Len(calls)
              /\ tasks'[t].resp = 500
              /\ tasks'[t].pc = "done"
              /\ tasks'[t].fetched = {})]_vars

\* a refresh ended on the failure of its bulk fetch
C10_Witness ==
    \E t \in TaskIds :
        /\ tasks[t].kind = "refresh"
        /\ tasks[t].resp = 500
        /\ calls[tasks[t].a].st \in Failures
        /\ Len(calls) = tasks[t].a

\* the step in which timer-driven cycle t learns the end of its bulk fetch
CycleEnds(t, outcomes) ==
    /\ tasks[t].kind = "cycle"
    /\ tasks[t].pc = "await"
    /\ calls[tasks[t].a].st = "fetching"
    /\ calls'[tasks[t].a].st \in outcomes

\* the messages one successful cycle sends on a connection: one ticker
\* message per pair of the universe, carrying the records of bulk fetch c
CycleMessages(c) ==
    [i \in 1..NumPairs |->
        [type |-> "ticker", pair |-> Universe[i], data |-> c, src |-> "broadcast"]]

\* C11: when the bulk ticker fetch of a timer-driven cycle fails, the cycle
\* ends there: nothing is sent on any connection, the store is left as it
\* was, no connection changes state and the broadcast timer stays scheduled
\* as before.
C11_FailedCycleIsBestEffort ==
    [][\A t \in TaskIds :
          CycleEnds(t, Failures) =>
              /\ tasks'[t].pc = "done"
              /\ UNCHANGED <<storeVars, marketDataAt, sent, readyState, pingNext, nextBroadcast>>
              /\ Len(calls') = Len(calls)]_vars

\* a cycle failed, the timer fired again and the next cycle fetched, stored
\* and broadcast
C11_Witness ==
    \E t1, t2 \in TaskIds : \E c \in Conns :
        /\ t1 < t2
        /\ tasks[t1].kind = "cycle" /\ tasks[t1].pc = "done"
        /\ calls[tasks[t1].a].st \in Failures
        /\ tasks[t2].kind = "cycle" /\ tasks[t2].pc = "done"
        /\ calls[tasks[t2].a].st = "ok"
        /\ marketData = getMultipleTickers(Universe, tasks[t2].a)
        /\ sent[c] = CycleMessages(tasks[t2].a)

\* C12: a successful timer-driven cycle sends, on every connection that is
\* open when it broadcasts, exactly one ticker message per pair of the
\* universe, whatever the connection subscribed to.
C12_BroadcastReachesEveryOpen ==
    [][\A t \in TaskIds :
          CycleEnds(t, {"ok"}) =>
              \A c \in Conns :
                  readyState[c] = "open" => sent'[c] = sent[c] \o CycleMessages(tasks[t].a)]_vars

\* a connection that subscribed to the first pair alone received the
\* broadcast of every pair
C12_Witness ==
    \E c \in Conns : \E t \in TaskIds :
        /\ SingleSubscribe(c, Universe[1])
        /\ Len(handled[c]) = 1
        /\ tasks[t].kind = "cycle"
        /\ sent[c] = InitialPush(Universe[1]) \o CycleMessages(tasks[t].a)

\* C13: nothing (ping, broadcast message, initial-push message) is sent on a
\* connection that is not open, and a connection that is not open takes
\* nothing away from the others: a successful cycle still sends its messages
\* on every open connection and ends normally.
C13_NothingSentUnlessOpen ==
    [][/\ \A c \in Conns : sent'[c] # sent[c] => readyState[c] = "open"
       /\ \A t \in TaskIds :
            (CycleEnds(t, {"ok"}) /\ \E d \in Conns : readyState[d] \in {"closing", "closed"})
            => /\ tasks'[t].pc = "done"
               /\ \A c \in Conns :
                    readyState[c] = "open" => Len(sent'[c]) = Len(sent[c]) + NumPairs]_vars

\* one connection has left the open state with nothing sent on it, and the
\* broadcast reached another one
C13_Witness ==
    \E c, d \in Conns : \E t \in TaskIds :
        /\ readyState[c] = "closing"
        /\ sent[c] = <<>>
        /\ readyState[d] = "open"
        /\ tasks[t].kind = "cycle" /\ tasks[t].pc = "done"
        /\ sent[d] = CycleMessages(tasks[t].a)

\* C14: once the close event of a connection has been handled, its heartbeat
\* timer is no longer scheduled.
C14_CloseCancelsHeartbeat ==
    \A c \in Conns : readyState[c] = "closed" => pingNext[c] = 0

\* no key of the result stands for the pair: none of its alias identifiers
\* is a key, and no key matches it loosely
NoKeyFor(pair, result) ==
    /\ \A j \in 1..Len(possibleKeys(pair)) : ~Has(result, possibleKeys(pair)[j])
    /\ \A i \in 1..Len(result) : ~FuzzyMatch(result[i].key, pair)

\* for each result of a bulk request, the pairs of the universe no key of it
\* stands for
UniverseMissing ==
    [result \in UniverseResults |-> {i \in 1..NumPairs : NoKeyFor(Universe[i], result)}]

\* C15: when some requested pair resolves to no key of the result of a bulk
\* Ticker request, getMultipleTickers fails as a whole: the error names the
\* first such pair of the request, no record is returned for any pair, not
\* even for those that resolved, and the caller (get-market-data or a timer
\* cycle) ends there, storing and sending nothing.
C15_UnresolvedPairFailsWholeBatch ==
    [][\A c \in CallIds :
          (/\ calls[c].st = "fetching"
           /\ calls'[c].st \in {"ok", "noData"}
           /\ UniverseMissing[returned'.result] # {})
          => LET r == returned'
                 missing == UniverseMissing[r.result]
                 t == calls[c].owner
             IN /\ calls'[c].st = "noData"
                /\ r.pairs = Universe
                /\ ~r.out.ok
                /\ r.out.error = "No data found for pair"
                /\ r.out.pair = Universe[Min(missing)]
                /\ "records" \notin DOMAIN r.out
                /\ UNCHANGED <<storeVars, marketDataAt, sent>>
                /\ tasks'[t].pc = "done"
                /\ tasks[t].kind = "marketData" => tasks'[t].resp = 500]_vars

\* a timer cycle ended on a result in which the first pair resolved and the
\* last did not: nothing stored, nothing sent on the open connection
C15_Witness ==
    \E t \in TaskIds : \E c \in Conns :
        /\ tasks[t].kind = "cycle" /\ tasks[t].pc = "done"
        /\ calls[tasks[t].a].st = "noData"
        /\ returned.op = "getMultipleTickers"
        /\ ~returned.out.ok
        /\ returned.out.pair = Universe[NumPairs]
        /\ returned.keys[1] # ""
        /\ readyState[c] = "open" /\ sent[c] = <<>>
        /\ marketData = <<>>

\* C16: in a batch request, each pair one of whose alias identifiers is a
\* key of the result resolves to the first such identifier of its alias
\* list, whatever other keys match it loosely; a key from outside the alias
\* list is chosen only when no alias identifier is a key.  So ADAUSD
\* resolves to the key ADAUSD and XBTUSD to the key XXBTZUSD when present.
C16_AliasBeforeFallback ==
    returned.op = "getMultipleTickers" =>
        \A i \in 1..Len(returned.pairs) :
            LET pair == returned.pairs[i]
                al == possibleKeys(pair)
                present == {j \in 1..Len(al) : Has(returned.result, al[j])}
            IN /\ present # {} => returned.keys[i] = al[Min(present)]
               /\ (pair = "ADAUSD" /\ Has(returned.result, "ADAUSD"))
                     => returned.keys[i] = "ADAUSD"
               /\ (pair = "XBTUSD" /\ Has(returned.result, "XXBTZUSD"))
                     => returned.keys[i] = "XXBTZUSD"

\* XBTUSD resolved to XXBTZUSD although a loosely matching key comes first
\* in the result, and ADAUSD resolved to its own key
C16_Witness ==
    /\ returned.op = "getMultipleTickers"
    /\ returned.pairs = <<"XBTUSD">>
    /\ returned.result # <<>>
    /\ returned.result[1].key = "XBTUSDT"
    /\ returned.keys = <<"XXBTZUSD">>
    /\ returned.out.ok

\* C17: a successful batch request returns exactly one record per requested
\* pair, in the order of the request, each labelled with the requested pair.
C17_OneRecordPerPairInOrder ==
    (returned.op = "getMultipleTickers" /\ returned.out.ok) =>
        /\ Len(returned.out.records) = Len(returned.pairs)
        /\ \A i \in 1..Len(returned.pairs) : returned.out.records[i].pair = returned.pairs[i]

\* several pairs were requested and the first resolved to a key that is not
\* its own identifier
C17_Witness ==
    /\ returned.op = "getMultipleTickers"
    /\ returned.out.ok
    /\ Len(returned.pairs) >= 2
    /\ returned.keys[1] # returned.pairs[1]
    /\ returned.out.records[1].pair = returned.pairs[1]

\* what getTickerData computes from the upstream fields the batch record was
\* built from
SingleOf(i) ==
    getTickerData(returned.pairs[i], <<Lookup(returned.result, returned.keys[i])>>).record

C19_EmptySideZeroSpread ==
    (/\ returned.op = "getOrderBook"
     /\ (returned.result.asks = <<>> \/ returned.result.bids = <<>>))
    => (returned.out.spread = 0 /\ returned.out.spreadPercent = 0)

\* the record of the last put of the log for (kind, pair), 0 if there is none
LastPut(log, kind, pair) ==
    LET hits == {i \in 1..Len(log) : log[i].kind = kind /\ log[i].pair = pair} IN
    IF hits = {} THEN 0 ELSE log[CHOOSE i \in hits : \A j \in hits : j <= i].data

StoreKinds == {"ticker", "orderBook", "trades"}

\* what get(kind, pair) returns after the step
storageGetAfter(kind, pair) ==
    CASE kind = "ticker" -> tickerData'[pair]
      [] kind = "orderBook" -> orderBooks'[pair]
      [] kind = "trades" -> recentTrades'[pair]

\* C20: after any sequence of puts, get(kind, pair) returns the record of the
\* most recent put for that kind and pair, nothing if there was none; and
\* each put changes the entry of its own kind and pair alone, leaving every
\* other key, every other kind, the market list and lastUpdated as they were.
C20_LastWriteWins ==
    [][storeLog' # storeLog =>
          LET e == storeLog'[Len(storeLog')] IN
          /\ \A k \in StoreKinds : \A p \in Pairs :
                /\ storageGetAfter(k, p) = LastPut(storeLog', k, p)
                /\ (k # e.kind \/ p # e.pair) => storageGetAfter(k, p) = storageGet(k, p)
          /\ storageGetAfter(e.kind, e.pair) = e.data
          /\ UNCHANGED <<marketData, lastUpdated>>]_vars

\* an entry was overwritten by a later put of another record while a put of
\* another kind for the same pair went in between
C20_Witness ==
    /\ Len(storeLog) = 3
    /\ storeLog[1].kind = "ticker" /\ storeLog[3].kind = "ticker"
    /\ storeLog[1].pair = storeLog[3].pair
    /\ storeLog[1].data # storeLog[3].data
    /\ storeLog[2].kind = "orderBook" /\ storeLog[2].pair = storeLog[1].pair
    /\ tickerData[storeLog[1].pair] = storeLog[3].data
    /\ orderBooks[storeLog[1].pair] = storeLog[2].data

\* the step in which a cached read is served
CachedServed == Len(tasks') = Len(tasks) + 1 /\ tasks'[Len(tasks')].kind = "cached"

\* C21: a get-cached request of any kind makes no upstream call and leaves
\* the three maps, the market list, lastUpdated and the rate-limit gate as
\* they were; it answers with the stored entry, null where there is none,
\* and with status 400 when the pair is missing for orderbook or trades or
\* when the kind is unknown.
C21_CachedReadsArePure ==
    [][CachedServed =>
          LET r == tasks'[Len(tasks')] IN
          /\ UNCHANGED <<calls, gateVars, storeVars, marketDataAt>>
          /\ (r.type = "ticker" /\ r.pair # "") =>
                /\ r.resp = 200
                /\ r.body.data = IF tickerData[r.pair] = 0 THEN Null ELSE tickerData[r.pair]
          /\ (r.type = "ticker" /\ r.pair = "") =>
                /\ r.resp = 200
                /\ \A p \in Pairs : tickerData[p] # 0 =>
                      (p \in DOMAIN r.body.all /\ r.body.all[p] = tickerData[p])
                /\ \A p \in DOMAIN r.body.all : tickerData[p] # 0
          /\ (r.type = "orderbook" /\ r.pair # "") =>
                /\ r.resp = 200
                /\ r.body.data = IF orderBooks[r.pair] = 0 THEN Null ELSE orderBooks[r.pair]
          /\ (r.type = "trades" /\ r.pair # "") =>
                /\ r.resp = 200
                /\ r.body.data = IF recentTrades[r.pair] = 0 THEN Null ELSE recentTrades[r.pair]
          /\ r.type = "market-data" =>
                /\ r.resp = 200
                /\ r.body.list = marketData
                /\ r.body.lastUpdated = lastUpdated
          /\ (r.type \in {"orderbook", "trades"} /\ r.pair = "") => r.resp = 400
          /\ r.type \notin {"ticker", "orderbook", "trades", "market-data"} => r.resp = 400]_vars

\* an order book was fetched and stored, and a cached read of the trades of
\* the same pair, of which the store has no entry, answered null
C21_Witness ==
    \E t \in TaskIds : \E p \in Pairs :
        /\ tasks[t].kind = "cached"
        /\ tasks[t].type = "trades"
        /\ tasks[t].pair = p
        /\ tasks[t].body.data = Null
        /\ orderBooks[p] # 0
        /\ recentTrades[p] = 0
        /\ Len(calls) = 1

\* the calls force-refresh t made for pair p
PairCalls(t, p) ==
    {c \in CallIds : calls[c].owner = t /\ calls[c].pair = p
                      /\ calls[c].api \in {"Depth", "Trades"}}

\* C22: force-refresh starts no fetch for a pair while a fetch it made for
\* an earlier pair has not settled.
C22_NextPairAfterBothSettled ==
    \A t \in TaskIds : \A i, j \in 1..NumPairs :
        (tasks[t].kind = "refresh" /\ i < j /\ PairCalls(t, Universe[j]) # {})
        => \A c \in PairCalls(t, Universe[i]) : calls[c].st \notin {"sleeping", "fetching"}

\* call c is answered with a result in this step
Succeeds(c) == calls[c].st = "fetching" /\ calls'[c].st = "ok"

\* the entry of the store the on-demand handler of the given kind writes
EntryAfter(kind, pair) ==
    CASE kind = "ticker" -> tickerData'[pair]
      [] kind = "orderbook" -> orderBooks'[pair]
      [] OTHER -> recentTrades'[pair]

C28_BothStoredOrNeither ==
    [][\A c \in CallIds :
          (/\ calls[c].st = "fetching"
           /\ calls'[c].st # "fetching"
           /\ tasks[calls[c].owner].kind = "refresh"
           /\ calls[c].api \in {"Depth", "Trades"})
          => LET t == calls[c].owner
                 p == calls[c].pair
             IN IF \A d \in PairCalls(t, p) : calls'[d].st = "ok"
                THEN \A d \in PairCalls(t, p) :
                        IF calls[d].api = "Depth" THEN orderBooks'[p] = d
                        ELSE recentTrades'[p] = d
                ELSE UNCHANGED <<orderBooks, recentTrades>>]_vars

\* the order-book fetch of the first pair succeeded and its trades fetch
\* failed: the pair has neither entry, and the refresh went on and stored
\* the second pair
C28_Witness ==
    \E t \in TaskIds : \E c, d \in CallIds :
        /\ tasks[t].kind = "refresh"
        /\ {c, d} = PairCalls(t, Universe[1])
        /\ calls[c].api = "Depth" /\ calls[c].st = "ok"
        /\ calls[d].api = "Trades" /\ calls[d].st \in Failures
        /\ orderBooks[Universe[1]] = 0
        /\ recentTrades[Universe[1]] = 0
        /\ Universe[2] \in tasks[t].stored

\* C23: with callers that do not overlap, every request is issued at least
\* rateLimitMs after the request before it, and a call made rateLimitMs or
\* more after the last request is issued in the step that makes it.
C23_SerialCallsAreSpaced ==
    [][/\ lastRequestTime' # lastRequestTime
            => lastRequestTime' - lastRequestTime >= rateLimitMs
       /\ (Len(calls') = Len(calls) + 1 /\ now - lastRequestTime >= rateLimitMs)
            => /\ calls'[Len(calls')].st = "fetching"
               /\ lastRequestTime' = now]_vars

\* the second call came less than rateLimitMs after the first request,
\* waited, and its request was issued rateLimitMs after the first
C23_Witness ==
    /\ Len(calls) = 2
    /\ calls[2].wake # 0
    /\ calls[2].st = "fetching"
    /\ prevRequestTime = StartTime
    /\ lastRequestTime = prevRequestTime + rateLimitMs

\* C24: when the bulk fetch of a timer-driven cycle succeeds, the fetched
\* list is the stored market list by the time the cycle sends, and what the
\* cycle sends on a connection is one ticker message per record of that
\* list, in the order of the list, which is the order of the universe.
C24_StoreThenBroadcast ==
    [][\A t \in TaskIds :
          CycleEnds(t, {"ok"}) =>
              /\ marketData' = getMultipleTickers(Universe, tasks[t].a)
              /\ marketDataAt' = now
              /\ \A c \in Conns :
                    sent'[c] # sent[c] =>
                        /\ Len(sent'[c]) = Len(sent[c]) + NumPairs
                        /\ SubSeq(sent'[c], 1, Len(sent[c])) = sent[c]
                        /\ \A i \in 1..NumPairs :
                              LET m == sent'[c][Len(sent[c]) + i] IN
                              /\ m.type = "ticker"
                              /\ m.pair = Universe[i]
                              /\ m.pair = marketData'[i].pair
                              /\ m.data = marketData'[i].data]_vars

\* get-market-data had stored a list; the cycle then fetched another one,
\* stored it and sent its records
C24_Witness ==
    \E t, u \in TaskIds : \E c \in Conns :
        /\ tasks[u].kind = "marketData" /\ tasks[u].resp = 200
        /\ tasks[t].kind = "cycle" /\ tasks[t].pc = "done"
        /\ u < t
        /\ marketData = getMultipleTickers(Universe, tasks[t].a)
        /\ marketDataAt = now
        /\ sent[c] = CycleMessages(tasks[t].a)

RECURSIVE PushShapes(_)
\* the shape of the initial push for a list of pairs
PushShapes(pairs) ==
    IF pairs = <<>> THEN <<>> ELSE PushShape(Head(pairs)) \o PushShapes(Tail(pairs))

\* the part of the log of c written from the handling of its i-th message
\* up to the handling of the next one
ReplyEnd(c, i) == IF i < Len(handled[c]) THEN handled[c][i + 1].at ELSE Len(sent[c])

C26_HeartbeatEndsAfterClose ==
    /\ [][\A c \in Conns :
            /\ (readyState[c] \in {"closing", "closed"} /\ pingNext'[c] # pingNext[c])
                  => (pingNext'[c] = 0 /\ sent'[c] = sent[c])
            /\ (readyState[c] # "none" /\ pingNext[c] = 0) => pingNext'[c] = 0]_vars
    /\ \A c \in Conns : (readyState[c] \in {"closing", "closed"}) ~> (pingNext[c] = 0)

\* a connection was pinged once while open, was closed, and its timer
\* cancelled itself at the next firing
C26_Witness ==
    \E c \in Conns :
        /\ readyState[c] = "closed"
        /\ pingNext[c] = 0
        /\ Len(sent[c]) = 1
        /\ sent[c][1].type = "ping"
        /\ now >= StartTime + 2 * PING_INTERVAL_MS

\* the pairs of the entries of a market-data cache ("" for an entry that
\* has none)
PairOf(item) == IF "pair" \in DOMAIN item THEN item.pair ELSE ""

\* C29: after the client has processed a ticker message that carries a
\* record, the market-data cache is a list with at most one entry per pair,
\* every entry having a pair; the one entry of the pair of the message
\* carries every field of the record; and the entries of the other pairs are
\* those the cache had before.
C29_OneEntryPerPair ==
    [][(/\ Len(received') > Len(received)
        /\ received'[Len(received')].type = "ticker"
        /\ received'[Len(received')].data # Undefined)
        => LET message == received'[Len(received')]
               old == IF queryData.marketData = Undefined THEN <<>>
                      ELSE queryData.marketData.list
               cache == queryData'.marketData
           IN /\ cache # Undefined
              /\ \A i, j \in 1..Len(cache.list) :
                    /\ PairOf(cache.list[i]) # ""
                    /\ i # j => PairOf(cache.list[i]) # PairOf(cache.list[j])
              /\ \E i \in 1..Len(cache.list) :
                    /\ PairOf(cache.list[i]) = message.pair
                    /\ \A f \in DOMAIN message.data :
                          f \in DOMAIN cache.list[i] /\ cache.list[i][f] = message.data[f]
              /\ {cache.list[i] : i \in {j \in 1..Len(cache.list) :
                                            PairOf(cache.list[j]) # message.pair}}
                    = {old[i] : i \in {j \in 1..Len(old) : PairOf(old[j]) # message.pair}}]_vars

Live == {i \in 1..Len(sockets) : sockets[i] # "closed"}

\* C30: once the hook is unmounted no WebSocket is created and no reconnect
\* timer is pending; a reconnect is scheduled only while the hook is mounted
\* and only when the current socket is closed; and at any time at most one
\* socket of the hook is not closed, none while a reconnect is pending.
C30_OneLiveConnection ==
    /\ [](/\ isUnmounted => ~reconnectTimeout
          /\ Cardinality(Live) <= 1
          /\ reconnectTimeout => Live = {})
    /\ [][/\ isUnmounted => Len(sockets') = Len(sockets)
          /\ (~reconnectTimeout /\ reconnectTimeout')
                => (~isUnmounted /\ sockets'[wsRef] = "closed")
          /\ Len(sockets') > Len(sockets) => Live = {}]_vars

\* the first socket was closed, the hook reconnected, then was unmounted,
\* and the second socket was closed: nothing is scheduled
C30_Witness ==
    /\ isUnmounted
    /\ sockets = <<"closed", "closed">>
    /\ wsRef = 2
    /\ ~reconnectTimeout

====
